---- MODULE Spec2Model ----
(***************************************************************************)
(* firebolt-cli: configuration resolution, credential storage and the      *)
(* two-strike construction of the resource manager.                        *)
(*                                                                         *)
(* Strings are sequences of one-character strings, so that the whitespace  *)
(* stripping done by ConfigParser when it parses a file can be computed.   *)
(* Python's None is the value None below, which is no string of the model. *)
(***************************************************************************)
EXTENDS Naturals, Sequences, FiniteSets, TLC

VARIABLES
    file,       \* the config file firebolt.ini on disk
    keyring,    \* the secret stored under ("firebolt-cli", "password"), or None
    kmode,      \* how the keyring backend behaves in this run: up, down, flaky
    config,     \* common_options._config, the process-wide parser cache
    firstRead,  \* history: what the first read_config_key call of the run saw
    firstFound, \* history: what the first read_config_key call that found the file parsed
    last,       \* history: the last call made, its arguments and its outcome
    nupd,       \* history: the number of update_config calls made so far
    rm          \* history: the last construct_resource_manager call

vars == <<file, keyring, kmode, config, firstRead, firstFound, last, nupd, rm>>

----------------------------------------------------------------------------
(* Values *)

None == <<"None">>

EmptyStr == <<>>

\* The strings the callers pass: empty, plain, and padded with whitespace.
InputValues == { <<>>, <<"a">>, <<" ", "b">> }

\* The largest number of keyword arguments of one update_config call.
MaxKwargs == 1

\* The largest number of update_config calls in one behaviour.
MaxUpdates == 2

\* The keys that the option callbacks resolve.  database_name and engine_name
\* are stored and read as username is.
Keys == {"username", "account_name", "api_endpoint", "password"}

config_section == "firebolt-cli"

\* Python truthiness of an Optional[str]
Truthy(v) == v # None /\ Len(v) # 0

IsSpace(c) == c \in {" ", "\t"}

RECURSIVE LStrip(_)
LStrip(s) == IF s # <<>> /\ IsSpace(Head(s)) THEN LStrip(Tail(s)) ELSE s

RECURSIVE RStrip(_)
RStrip(s) == IF s # <<>> /\ IsSpace(s[Len(s)]) THEN RStrip(SubSeq(s, 1, Len(s) - 1)) ELSE s

\* ConfigParser strips the whitespace around a value when it parses "key = value".
Strip(s) == RStrip(LStrip(s))

EmptyDict == [k \in {} |-> EmptyStr]

\* dict.setdefault in place of dict.update: an entry already there is kept
DictSetDefault(a, b) ==
    [k \in (DOMAIN a) \cup (DOMAIN b) |-> IF k \in DOMAIN a THEN a[k] ELSE b[k]]

\* dict.update: the entries of b over those of a
DictUpdate(a, b) ==
    [k \in (DOMAIN a) \cup (DOMAIN b) |-> IF k \in DOMAIN b THEN b[k] ELSE a[k]]

DictWithout(d, key) == [k \in (DOMAIN d) \ {key} |-> d[k]]

----------------------------------------------------------------------------
(* The config file and ConfigParser *)

\* No file at config_file.
NoFile == [exists |-> FALSE, corrupt |-> FALSE, hasSection |-> FALSE, section |-> EmptyDict]

\* ConfigParser(interpolation=None), nothing read yet
EmptyParser == [hasSection |-> FALSE, section |-> EmptyDict]

\* config.read(config_file) of a file that parses: the section's entries, stripped.
\* (For a file that does not parse, this is what the parser holds when it raises.)
ConfigParserRead(f) ==
    [hasSection |-> f.hasSection,
     section |-> [k \in DOMAIN f.section |-> Strip(f.section[k])]]

\* config.write(cf): the whole file rewritten from the parser
ConfigParserWrite(p) ==
    [exists |-> TRUE, corrupt |-> FALSE, hasSection |-> p.hasSection, section |-> p.section]

\* _config.get(config_section, key, fallback=None)
ParserGet(p, key) ==
    IF p.hasSection /\ key \in DOMAIN p.section THEN p.section[key] ELSE None

----------------------------------------------------------------------------
(* The keyring *)

\* Whether a keyring call may raise KeyringError, by the backend's behaviour.
KeyringRaises ==
    CASE kmode = "up" -> {FALSE}
      [] kmode = "down" -> {TRUE}
      [] OTHER -> BOOLEAN

\* set_keyring_param(param, value) with the backend raising or not:
\* [ok |-> the bool returned, keyring |-> the secret afterwards].
\* Deleting a secret that is not there raises PasswordDeleteError, a KeyringError.
SetKeyringParam(value, raises) ==
    IF raises \/ (value = EmptyStr /\ keyring = None)
    THEN [ok |-> FALSE, keyring |-> keyring]
    ELSE [ok |-> TRUE, keyring |-> IF value = EmptyStr THEN None ELSE value]

----------------------------------------------------------------------------
(* utils.read_config *)

\* The dict read_config returns for file f and secret kr, keyring.get_password
\* raising or not.
ReadConfigDict(f, kr, raises) ==
    LET fromFile == IF f.exists /\ f.hasSection THEN ConfigParserRead(f).section ELSE EmptyDict
        config_dict == IF ~raises /\ Truthy(kr)
                       THEN DictUpdate(fromFile, [k \in {"password"} |-> kr])
                       ELSE fromFile
    IN  [k \in {x \in DOMAIN config_dict : Truthy(config_dict[x])} |-> config_dict[k]]

\* What read_config raises: the parse error of a file that does not parse.
ReadConfigRaised(f) == IF f.exists /\ f.corrupt THEN "ParsingError" ELSE "none"

ReadConfig ==
    \E raises \in KeyringRaises :
        /\ last' = [op |-> "read_config",
                    raised |-> ReadConfigRaised(file),
                    keyringRaised |-> raises,
                    dict |-> IF ReadConfigRaised(file) = "none"
                             THEN ReadConfigDict(file, keyring, raises)
                             ELSE EmptyDict]
        /\ UNCHANGED <<file, keyring, kmode, config, firstRead, firstFound, nupd, rm>>

----------------------------------------------------------------------------
(* utils.update_config *)

\* The keyword arguments left for the file once the keyring took the password.
FileKwargs(kwargs, kr) ==
    IF "password" \in DOMAIN kwargs /\ kwargs["password"] # None /\ kr.ok
    THEN DictWithout(kwargs, "password")
    ELSE kwargs

\* update_config with "except ParsingError: pass" around config.read: a file that
\* does not parse is taken for what the parser made of it
UpdateRaisedSwallowed(f, fkw) ==
    IF DOMAIN fkw = {} THEN "none"
    ELSE IF \E k \in DOMAIN fkw : fkw[k] = None THEN "TypeError"
    ELSE "none"

\* What the file part of update_config raises, if anything.
UpdateRaised(f, fkw) ==
    IF DOMAIN fkw = {} THEN "none"
    ELSE IF f.exists /\ f.corrupt THEN "ParsingError"
    ELSE IF \E k \in DOMAIN fkw : fkw[k] = None THEN "TypeError"
    ELSE "none"

\* update_config with a cleanup pass: the entries with an empty value are left
\* out of what is written
UpdateFilePruned(f, fkw) ==
    IF DOMAIN fkw = {} \/ UpdateRaised(f, fkw) # "none" THEN f
    ELSE LET parser == IF f.exists THEN ConfigParserRead(f) ELSE EmptyParser
             merged == IF parser.hasSection THEN DictUpdate(parser.section, fkw) ELSE fkw
         IN  ConfigParserWrite(
                 [hasSection |-> TRUE,
                  section |-> [k \in {x \in DOMAIN merged : merged[x] # EmptyStr}
                                  |-> merged[k]]])

\* The file after the file part of update_config.
UpdateFile(f, fkw) ==
    IF DOMAIN fkw = {} \/ UpdateRaised(f, fkw) # "none" THEN f
    ELSE LET parser == IF f.exists THEN ConfigParserRead(f) ELSE EmptyParser
         IN  ConfigParserWrite(
                 [hasSection |-> TRUE,
                  section |-> IF parser.hasSection
                              THEN DictUpdate(parser.section, fkw)
                              ELSE fkw])

\* update_config(**kwargs), the keys of kwargs being one of keysets
UpdateConfigAmong(keysets) ==
    \E ks \in keysets :
      /\ nupd < MaxUpdates
      /\ nupd' = nupd + 1
      /\ \E kwargs \in [ks -> InputValues \cup {None}] :
           LET toKeyring == "password" \in ks /\ kwargs["password"] # None
           IN  \E raises \in (IF toKeyring THEN KeyringRaises ELSE {FALSE}) :
                 LET kr == IF toKeyring
                           THEN SetKeyringParam(kwargs["password"], raises)
                           ELSE [ok |-> FALSE, keyring |-> keyring]
                     fkw == FileKwargs(kwargs, kr)
                 IN  /\ keyring' = kr.keyring
                     /\ file' = UpdateFile(file, fkw)
                     /\ last' = [op |-> "update_config",
                                 kwargs |-> kwargs,
                                 raised |-> UpdateRaised(file, fkw),
                                 keyringOk |-> kr.ok,
                                 keyringRaised |-> raises]
                     /\ UNCHANGED <<kmode, config, firstRead, firstFound, rm>>

\* update_config(**kwargs), kwargs naming at most n of the keys
UpdateConfigWith(n) == UpdateConfigAmong({ks \in SUBSET Keys : Cardinality(ks) <= n})

UpdateConfig == UpdateConfigWith(MaxKwargs)

\* update_config called with no keyword or with one, as "firebolt configure"
\* given a single option calls it
UpdateConfigOne == UpdateConfigWith(1)

\* update_config called with no keyword, with one, or with a password and a
\* username together
UpdateConfigOneOrPair ==
    UpdateConfigAmong({ks \in SUBSET Keys : Cardinality(ks) <= 1}
                          \cup {{"password", "username"}})

----------------------------------------------------------------------------
(* common_options.read_config_key and the option callbacks *)

\* _config before the first load
NoConfig == [loaded |-> FALSE, hasSection |-> FALSE, section |-> EmptyDict]

\* _config once a file was read into it
Loaded(p) == [loaded |-> TRUE, hasSection |-> p.hasSection, section |-> p.section]

\* read_config_key without its "read config once": the file is read on every call
ReadConfigKeyReload(cfg, f, key) ==
    IF ~f.exists
    THEN [config |-> cfg, value |-> IF cfg.loaded THEN ParserGet(cfg, key) ELSE None,
          raised |-> "none"]
    ELSE LET c == [loaded |-> TRUE, hasSection |-> f.hasSection,
                   section |-> [k \in DOMAIN f.section |-> Strip(f.section[k])]]
         IN  [config |-> c, value |-> ParserGet(c, key),
              raised |-> IF f.corrupt THEN "ParsingError" ELSE "none"]

\* read_config_key(key) with _config = cfg and file f:
\* [config |-> _config afterwards, value |-> what it returns, raised |-> what it raises]
ReadConfigKey(cfg, f, key) ==
    IF cfg.loaded
    THEN [config |-> cfg, value |-> ParserGet(cfg, key), raised |-> "none"]
    ELSE IF ~f.exists
    THEN [config |-> cfg, value |-> None, raised |-> "none"]
    ELSE LET c == Loaded(ConfigParserRead(f))
         IN  IF f.corrupt
             THEN [config |-> c, value |-> None, raised |-> "ParsingError"]
             ELSE [config |-> c, value |-> ParserGet(c, key), raised |-> "none"]

\* firebolt.client.DEFAULT_API_URL
DEFAULT_API_URL == <<"D">>

\* The options declared with default_from_config_file, each with the arguments
\* of its callback.
OptionSpec ==
    [username     |-> [required |-> TRUE,  default |-> None],
     account_name |-> [required |-> TRUE,  default |-> None],
     api_endpoint |-> [required |-> FALSE, default |-> DEFAULT_API_URL]]

\* What a flag can carry on the command line: not given, or a value.
FlagValues == {None, <<"f">>}

\* What an environment variable can hold: unset, empty, or a value.
EnvValues == {None, <<>>, <<"e">>}

\* The value click hands to the callback: the flag's, else the environment variable's.
ClickValue(flag, env) == IF flag # None THEN flag ELSE env

\* Python's "a or b"
Or(a, b) == IF Truthy(a) THEN a ELSE b

\* inner with "read_config_key(param.name) or value or default": the file first
DefaultFromConfigFileFileFirst(name, flag, env, cfg, f) ==
    LET given == IF flag # None THEN flag ELSE env
        opt == OptionSpec[name]
        r == ReadConfigKey(cfg, f, name)
        value == IF Truthy(r.value) THEN r.value
                 ELSE IF Truthy(given) THEN given ELSE opt.default
        missing == opt.required /\ ~Truthy(value)
    IN  [config |-> r.config, readKey |-> TRUE, fileValue |-> r.value,
         raised |-> IF missing THEN "MissingParameter" ELSE "none",
         value |-> IF missing THEN None ELSE value]

\* default_from_config_file(default, required)'s inner(ctx, param, value) for the
\* option name: [config, value, raised, readKey |-> whether read_config_key was
\* called, fileValue |-> what it returned].
DefaultFromConfigFileResult(name, flag, env, cfg, f) ==
    LET given == ClickValue(flag, env)
        opt == OptionSpec[name]
        r == IF Truthy(given)
             THEN [config |-> cfg, value |-> None, raised |-> "none"]
             ELSE ReadConfigKey(cfg, f, name)
        value == Or(given, Or(r.value, opt.default))
    IN  [config |-> r.config,
         readKey |-> ~Truthy(given),
         fileValue |-> r.value,
         raised |-> IF r.raised # "none" THEN r.raised
                    ELSE IF opt.required /\ ~Truthy(value) THEN "MissingParameter"
                    ELSE "none",
         value |-> IF r.raised # "none" \/ (opt.required /\ ~Truthy(value))
                   THEN None ELSE value]

\* password_from_config_file(ctx, param, value): value is the --password flag,
\* typed what the user enters at the prompt.
PasswordFromConfigFileResult(prompt, typed, env, cfg, f) ==
    IF prompt
    THEN [config |-> cfg, readKey |-> FALSE, fileValue |-> None,
          raised |-> "none", value |-> typed]
    ELSE LET r == IF Truthy(env)
                  THEN [config |-> cfg, value |-> None, raised |-> "none"]
                  ELSE ReadConfigKey(cfg, f, "password")
             pw_value == Or(env, r.value)
         IN  [config |-> r.config,
              readKey |-> ~Truthy(env),
              fileValue |-> r.value,
              raised |-> IF r.raised # "none" THEN r.raised
                         ELSE IF ~Truthy(pw_value) THEN "MissingParameter"
                         ELSE "none",
              value |-> IF r.raised # "none" \/ ~Truthy(pw_value) THEN None ELSE pw_value]

\* What a read_config_key call made now leaves in the two history variables.
NoteRead(called) ==
    /\ firstRead' = IF called /\ firstRead.op = "none"
                    THEN [op |-> "read_config_key", exists |-> file.exists,
                          parser |-> IF file.exists THEN ConfigParserRead(file)
                                     ELSE EmptyParser]
                    ELSE firstRead
    /\ firstFound' = IF called /\ file.exists /\ firstFound.op = "none"
                     THEN [op |-> "read_config_key", parser |-> ConfigParserRead(file)]
                     ELSE firstFound

DefaultFromConfigFile ==
    \E name \in DOMAIN OptionSpec, flag \in FlagValues, env \in EnvValues :
        LET r == DefaultFromConfigFileResult(name, flag, env, config, file)
        IN  /\ config' = r.config
            /\ NoteRead(r.readKey)
            /\ last' = [op |-> "default_from_config_file", key |-> name,
                        flag |-> flag, env |-> env, readKey |-> r.readKey,
                        fileValue |-> r.fileValue, raised |-> r.raised,
                        value |-> r.value]
            /\ UNCHANGED <<file, keyring, kmode, nupd, rm>>

PasswordFromConfigFile ==
    \E prompt \in BOOLEAN, env \in EnvValues :
        LET r == PasswordFromConfigFileResult(prompt, <<"t">>, env, config, file)
        IN  /\ config' = r.config
            /\ NoteRead(r.readKey)
            /\ last' = [op |-> "password_from_config_file", key |-> "password",
                        flag |-> prompt, env |-> env, readKey |-> r.readKey,
                        fileValue |-> r.fileValue, raised |-> r.raised,
                        value |-> r.value]
            /\ UNCHANGED <<file, keyring, kmode, nupd, rm>>

\* read_config_key(key) called for any of the keys
ReadConfigKeyCall ==
    \E key \in Keys :
        LET r == ReadConfigKey(config, file, key)
        IN  /\ config' = r.config
            /\ NoteRead(TRUE)
            /\ last' = [op |-> "read_config_key", key |-> key, readKey |-> TRUE,
                        fileValue |-> r.value, raised |-> r.raised]
            /\ UNCHANGED <<file, keyring, kmode, nupd, rm>>

\* The file at config_file left unparsable by something other than this program
\* (an editor, a truncated write): config.read(config_file) will raise
\* ParsingError.  What the parser makes of the file before it raises is the
\* section as it was, or nothing if there was no file.
CorruptFile ==
    /\ ~file.corrupt
    /\ file' = [file EXCEPT !.exists = TRUE, !.corrupt = TRUE]
    /\ UNCHANGED <<keyring, kmode, config, firstRead, firstFound, last, nupd, rm>>

----------------------------------------------------------------------------
(* utils.construct_resource_manager *)

\* How an invocation of the factory ResourceManager(Settings(...)) can end:
\* a manager, the service rejecting the credentials, any other failure.
FactoryBehaviours == {"ok", "HTTPStatusError", "ConnectError"}

\* The raw_config_options that the commands pass.
RawConfigOptions ==
    [api_endpoint : {<<"D">>},
     account_name : {<<"a">>, <<"b">>},
     region : {None, <<"r">>},
     username : {None, <<"u">>},
     password : {None, <<"p">>},
     access_token : {None, <<>>, <<"t">>}]

\* settings_dict; region None stands for no "region" among the options
SettingsDict(o) ==
    [server |-> o.api_endpoint,
     default_region |-> IF o.region = None THEN EmptyStr ELSE o.region,
     account_name |-> o.account_name]

\* Settings(**settings_dict, access_token=...) passing username and password too
TokenSettingsWithUser(o) ==
    [server |-> SettingsDict(o).server,
     default_region |-> SettingsDict(o).default_region,
     account_name |-> SettingsDict(o).account_name,
     user |-> o.username, password |-> o.password,
     access_token |-> o.access_token]

\* Settings(**settings_dict, access_token=raw_config_options["access_token"])
TokenSettings(o) ==
    [server |-> SettingsDict(o).server,
     default_region |-> SettingsDict(o).default_region,
     account_name |-> SettingsDict(o).account_name,
     user |-> None, password |-> None,
     access_token |-> o.access_token]

\* Settings(**settings_dict, user=..., password=...)
PasswordSettings(o) ==
    [server |-> SettingsDict(o).server,
     default_region |-> SettingsDict(o).default_region,
     account_name |-> SettingsDict(o).account_name,
     user |-> o.username, password |-> o.password,
     access_token |-> None]

\* ResourceManager(settings), ending as behaviour says
ResourceManager(settings, behaviour) ==
    IF behaviour = "ok"
    THEN [kind |-> "returned", settings |-> settings, error |-> "none"]
    ELSE [kind |-> "raised", settings |-> settings, error |-> behaviour]

\* construct_resource_manager with the HTTPStatusError of the token attempt let through
ConstructNoFallback(o, factory) ==
    IF o.access_token # None
    THEN [calls |-> <<TokenSettings(o)>>,
          outcome |-> ResourceManager(TokenSettings(o), factory[1])]
    ELSE [calls |-> <<PasswordSettings(o)>>,
          outcome |-> ResourceManager(PasswordSettings(o), factory[1])]

\* construct_resource_manager with "except Exception" around the token attempt
ConstructCatchAll(o, factory) ==
    IF o.access_token # None /\ factory[1] = "ok"
    THEN [calls |-> <<TokenSettings(o)>>,
          outcome |-> ResourceManager(TokenSettings(o), factory[1])]
    ELSE IF o.access_token # None
    THEN [calls |-> <<TokenSettings(o), PasswordSettings(o)>>,
          outcome |-> ResourceManager(PasswordSettings(o), factory[2])]
    ELSE [calls |-> <<PasswordSettings(o)>>,
          outcome |-> ResourceManager(PasswordSettings(o), factory[1])]

\* construct_resource_manager(**o), the n-th invocation of the factory ending as
\* factory[n] says: [calls |-> the Settings the factory was invoked with, in
\* order, outcome |-> the manager returned or the error raised].
ConstructResourceManagerResult(o, factory) ==
    IF o.access_token # None
    THEN LET first == ResourceManager(TokenSettings(o), factory[1])
         IN  IF first.kind = "returned"
             THEN [calls |-> <<TokenSettings(o)>>, outcome |-> first]
             ELSE IF first.error = "HTTPStatusError"
             THEN [calls |-> <<TokenSettings(o), PasswordSettings(o)>>,
                   outcome |-> ResourceManager(PasswordSettings(o), factory[2])]
             ELSE [calls |-> <<TokenSettings(o)>>, outcome |-> first]
    ELSE [calls |-> <<PasswordSettings(o)>>,
          outcome |-> ResourceManager(PasswordSettings(o), factory[1])]

ConstructResourceManager ==
    \E o \in RawConfigOptions, b1 \in FactoryBehaviours, b2 \in FactoryBehaviours :
        LET r == ConstructResourceManagerResult(o, <<b1, b2>>)
        IN  /\ rm' = [op |-> "construct_resource_manager", options |-> o,
                      factory |-> <<b1, b2>>, calls |-> r.calls,
                      outcome |-> r.outcome]
            /\ UNCHANGED <<file, keyring, kmode, config, firstRead, firstFound,
                           last, nupd>>

----------------------------------------------------------------------------
(* utils.get_default_database_engine *)

\* The largest number of bindings of a database.
MaxBindings == 3

EngineIds == {"e11", "e12", "e13"}

\* A binding of an engine to the database, as bindings.get_many returns it.
Bindings == [engine_id : EngineIds, is_default_engine : BOOLEAN]

\* The lists bindings.get_many can return.
BindingLists == UNION {[1..n -> Bindings] : n \in 0..MaxBindings}

\* How a call of the resource manager's services can end: its result, or a failure.
ServiceBehaviours == {"ok", "ConnectError"}

\* rm.databases.get_by_name(name=database_name)
DatabaseOf(database_name) == [name |-> database_name, database_id |-> <<"id", database_name>>]

\* The indices of the bindings that are the default engine.
DefaultBindings(bindings) == {i \in DOMAIN bindings : bindings[i].is_default_engine}

\* The loop "for binding in bindings: if binding.is_default_engine": the index
\* of the binding it stops at, 0 if it runs to the end.
RECURSIVE FirstDefaultFrom(_, _)
FirstDefaultFrom(bindings, i) ==
    IF i > Len(bindings) THEN 0
    ELSE IF bindings[i].is_default_engine THEN i
    ELSE FirstDefaultFrom(bindings, i + 1)

\* The loop keeping the last default binding it sees in place of returning at
\* the first
LastDefault(bindings) ==
    IF DefaultBindings(bindings) = {} THEN 0
    ELSE CHOOSE i \in DefaultBindings(bindings) :
             \A j \in DefaultBindings(bindings) : j <= i

FirstDefault(bindings) == FirstDefaultFrom(bindings, 1)

\* get_default_database_engine(rm, database_name), bindings the list that
\* bindings.get_many returns, svc how each service call ends:
\* [calls |-> the service calls made, in order, outcome |-> the engine returned
\* or the error raised].
GetDefaultDatabaseEngineResult(database_name, bindings, svc) ==
    LET database == DatabaseOf(database_name)
        c1 == [fn |-> "databases.get_by_name", arg |-> database_name]
        c2 == [fn |-> "bindings.get_many", arg |-> database.database_id]
        d == FirstDefault(bindings)
    IN  IF svc.databases # "ok"
        THEN [calls |-> <<c1>>, outcome |-> [kind |-> "raised", error |-> svc.databases]]
        ELSE IF svc.bindings # "ok"
        THEN [calls |-> <<c1, c2>>, outcome |-> [kind |-> "raised", error |-> svc.bindings]]
        ELSE IF Len(bindings) = 0
        THEN [calls |-> <<c1, c2>>, outcome |-> [kind |-> "raised", error |-> "FireboltError"]]
        ELSE IF d # 0
        THEN LET c3 == [fn |-> "engines.get", arg |-> bindings[d].engine_id]
             IN  IF svc.engines # "ok"
                 THEN [calls |-> <<c1, c2, c3>>,
                       outcome |-> [kind |-> "raised", error |-> svc.engines]]
                 ELSE [calls |-> <<c1, c2, c3>>,
                       outcome |-> [kind |-> "returned", engine_id |-> bindings[d].engine_id]]
        ELSE [calls |-> <<c1, c2>>, outcome |-> [kind |-> "raised", error |-> "FireboltError"]]

\* The function keeps no state between its calls: one call per behaviour.
GetDefaultDatabaseEngine ==
    \E bindings \in BindingLists,
       svc \in [databases : ServiceBehaviours, bindings : ServiceBehaviours,
                engines : ServiceBehaviours] :
        LET r == GetDefaultDatabaseEngineResult(<<"d">>, bindings, svc)
        IN  /\ last.op = "none"
            /\ last' = [op |-> "get_default_database_engine",
                        database_name |-> <<"d">>,
                        bindings |-> bindings, svc |-> svc,
                        calls |-> r.calls, outcome |-> r.outcome]
            /\ UNCHANGED <<file, keyring, kmode, config, firstRead, firstFound,
                           nupd, rm>>

----------------------------------------------------------------------------
(* Specification of the store: update_config and read_config, in any order,  *)
(* over a keyring that works, never works, or fails now and then.           *)

NoCall == [op |-> "none"]

InitCommon ==
    /\ file = NoFile
    /\ keyring = None
    /\ config = NoConfig
    /\ firstRead = NoCall
    /\ firstFound = NoCall
    /\ last = NoCall
    /\ nupd = 0
    /\ rm = NoCall

Init ==
    /\ InitCommon
    /\ kmode \in {"up", "down", "flaky"}

Next ==
    \/ UpdateConfig
    \/ ReadConfig

Spec == Init /\ [][Next]_vars

(* Specification of one process resolving its options: the option callbacks, *)
(* read_config and update_config (of one key at a time) in any order, over a *)
(* keyring that works or never works.                                        *)

InitResolve ==
    /\ InitCommon
    /\ kmode \in {"up", "down"}

NextResolve ==
    \/ UpdateConfigOne
    \/ ReadConfig
    \/ DefaultFromConfigFile
    \/ PasswordFromConfigFile

SpecResolve == InitResolve /\ [][NextResolve]_vars

(* Specification of the store with a file that may stop parsing: update_config, *)
(* read_config and read_config_key in any order, the file damaged at any time.  *)

InitCorrupt ==
    /\ InitCommon
    /\ kmode \in {"up", "down"}

NextCorrupt ==
    \/ UpdateConfigOneOrPair
    \/ ReadConfig
    \/ ReadConfigKeyCall
    \/ CorruptFile

SpecCorrupt == InitCorrupt /\ [][NextCorrupt]_vars

(* Specification of the construction of the resource manager: any options,   *)
(* any behaviour of the factory.                                             *)

InitRM ==
    /\ InitCommon
    /\ kmode = "up"

NextRM == ConstructResourceManager

SpecRM == InitRM /\ [][NextRM]_vars

(* Specification of the search for the default engine: any list of bindings, *)
(* any of the service calls failing.                                         *)

InitEngine ==
    /\ InitCommon
    /\ kmode = "up"

NextEngine == GetDefaultDatabaseEngine

SpecEngine == InitEngine /\ [][NextEngine]_vars

----------------------------------------------------------------------------
(* Claims about the store *)

\* The last call was update_config(..., key = some value v with P(v), ...) and it returned.
UpdatedWith(key, P(_)) ==
    /\ last.op = "update_config"
    /\ last.raised = "none"
    /\ key \in DOMAIN last.kwargs
    /\ P(last.kwargs[key])

IsEmptyStr(v) == v = EmptyStr

\* C1: once set_keyring_param succeeded in update_config(password = x), x not
\* empty, the file's section holds no password entry, and read_config (its
\* keyring call answering) returns x for password.  An entry left with an
\* empty value is not counted against the claim here: only an entry that
\* carries a password is.
C1_VaultAcceptedPasswordNotInFile ==
    (UpdatedWith("password", Truthy) /\ last.keyringOk)
        => /\ "password" \in DOMAIN file.section
                => ~Truthy(ConfigParserRead(file).section["password"])
           /\ LET d == ReadConfigDict(file, keyring, FALSE)
              IN  "password" \in DOMAIN d /\ d["password"] = last.kwargs["password"]

\* C5: after update_config(k = "") has returned, for any key k, no map that
\* read_config can return contains k.
C5_TombstoneLaw ==
    \A k \in Keys :
        UpdatedWith(k, IsEmptyStr)
            => \A raises \in KeyringRaises :
                   k \notin DOMAIN ReadConfigDict(file, keyring, raises)

\* C6: with a keyring whose every call raises, update_config(password = v), v
\* not empty, returns without raising and leaves the password in the file, and
\* read_config returns without raising, with v for password.
C6_VaultUnavailableFallback ==
    kmode = "down" =>
        /\ last.op = "read_config" => last.raised = "none"
        /\ (last.op = "update_config" /\ "password" \in DOMAIN last.kwargs
                /\ Truthy(last.kwargs["password"]))
            => /\ last.raised = "none"
               /\ "password" \in DOMAIN file.section
               /\ LET d == ReadConfigDict(file, keyring, TRUE)
                  IN  "password" \in DOMAIN d /\ d["password"] = last.kwargs["password"]

----------------------------------------------------------------------------
(* Claims about the resolution of options *)

\* The last call was an option callback that called read_config_key.
CalledReadConfigKey ==
    /\ last.op \in {"default_from_config_file", "password_from_config_file"}
    /\ last.readKey

\* The entry of the config file for key, as this process sees the file.
SnapshotEntry(key) == IF config.loaded THEN ParserGet(config, key) ELSE None

\* The first of the values of chain that is set and not empty, None if there is none.
FirstPresent(chain) ==
    LET S == {i \in DOMAIN chain : Truthy(chain[i])}
    IN  IF S = {} THEN None ELSE chain[CHOOSE i \in S : \A j \in S : i <= j]

\* C2: without a prompt, the password callback returns the first non-empty of
\* FIREBOLT_PASSWORD, the keyring secret and the file's password entry, and
\* raises MissingParameter only when all three are empty.
C2_PasswordResolutionOrder ==
    (last.op = "password_from_config_file" /\ ~last.flag)
        => LET want == FirstPresent(<<last.env, keyring, SnapshotEntry("password")>>)
           IN  IF want # None
               THEN last.raised = "none" /\ last.value = want
               ELSE last.raised = "MissingParameter"

\* C3: the callback of username, account_name and api_endpoint returns the
\* first value present of flag, environment variable, file entry and default;
\* with none present it raises MissingParameter for a required option and
\* returns the default for one that is not.
C3_OptionPrecedence ==
    last.op = "default_from_config_file"
        => LET opt == OptionSpec[last.key]
               want == FirstPresent(<<last.flag, last.env, SnapshotEntry(last.key),
                                      opt.default>>)
           IN  IF want # None
               THEN last.raised = "none" /\ last.value = want
               ELSE IF opt.required
               THEN last.raised = "MissingParameter"
               ELSE last.raised = "none" /\ last.value = opt.default

\* C3's case: the flag unset, the environment variable set, the file holding
\* another value for the option, and the callback returning the environment's.
C3_Witness ==
    /\ last.op = "default_from_config_file"
    /\ last.flag = None
    /\ Truthy(last.env)
    /\ file.exists
    /\ Truthy(ParserGet(ConfigParserRead(file), last.key))
    /\ last.value = last.env

\* A value that the file format keeps as it is: not empty, no whitespace around it.
IsPlain(v) == Truthy(v) /\ Strip(v) = v

\* C4 as claimed, for the values v that the file format keeps as they are:
\* after update_config(k = v) has returned, k not the password, read_config()[k]
\* and read_config_key(k) are v.
C4_RoundTrip ==
    \A k \in Keys \ {"password"} :
        UpdatedWith(k, IsPlain)
            => /\ \A raises \in KeyringRaises :
                    LET d == ReadConfigDict(file, keyring, raises)
                    IN  k \in DOMAIN d /\ d[k] = last.kwargs[k]
               /\ ReadConfigKey(config, file, k).value = last.kwargs[k]

\* C4 as amended: after update_config(k = v) has returned, k not the password
\* and v holding more than whitespace, read_config()[k] is v stripped of the
\* whitespace around it; read_config_key(k) returns the same in a process that
\* has not loaded the file yet, and the entry of its snapshot in one that has.
C4_RoundTripStripped ==
    \A k \in Keys \ {"password"} :
        (UpdatedWith(k, Truthy) /\ Truthy(Strip(last.kwargs[k])))
            => /\ \A raises \in KeyringRaises :
                    LET d == ReadConfigDict(file, keyring, raises)
                    IN  k \in DOMAIN d /\ d[k] = Strip(last.kwargs[k])
               /\ ReadConfigKey(config, file, k).value =
                      IF firstFound.op = "none"
                      THEN Strip(last.kwargs[k])
                      ELSE ParserGet(firstFound.parser, k)

\* C4's case: a key written after the process took its snapshot, the snapshot
\* holding another value for it.
C4_Witness ==
    \E k \in Keys \ {"password"} :
        /\ UpdatedWith(k, Truthy)
        /\ config.loaded
        /\ ParserGet(config, k) # Strip(last.kwargs[k])
        /\ ReadConfigDict(file, keyring, FALSE)[k] = Strip(last.kwargs[k])

\* An answer of read_config_key, an entry with an empty value counted as no entry.
Present(v) == IF Truthy(v) THEN v ELSE None

\* C10 as claimed: every read_config_key call answers from the file as the
\* first call of the run saw it (with no entry at all if there was no file
\* then), an entry with an empty value counted as no entry.
C10_SingleSnapshot ==
    CalledReadConfigKey
        => Present(last.fileValue) = Present(ParserGet(firstRead.parser, last.key))

\* C10 as amended: every read_config_key call answers from the file as the
\* first call that found the file read it, whatever the file holds by now;
\* as long as no call has found the file, the answer is None.
C10_SnapshotOnceFileFound ==
    CalledReadConfigKey
        => last.fileValue = IF firstFound.op = "none"
                            THEN None
                            ELSE ParserGet(firstFound.parser, last.key)

\* C10's case: a call answered from the snapshot after the file was rewritten,
\* with an answer that the file no longer gives.
C10_Witness ==
    /\ CalledReadConfigKey
    /\ firstFound.op # "none"
    /\ ConfigParserRead(file) # firstFound.parser
    /\ last.fileValue # ParserGet(ConfigParserRead(file), last.key)

----------------------------------------------------------------------------
(* Claims about construct_resource_manager *)

Constructed == rm.op = "construct_resource_manager"

\* The i-th invocation carried the token alone.
TokenOnly(i) ==
    /\ rm.calls[i].access_token = rm.options.access_token
    /\ rm.calls[i].access_token # None
    /\ rm.calls[i].user = None
    /\ rm.calls[i].password = None

\* The i-th invocation carried username and password alone.
PasswordOnly(i) ==
    /\ rm.calls[i].access_token = None
    /\ rm.calls[i].user = rm.options.username
    /\ rm.calls[i].password = rm.options.password

\* The call ended as its i-th invocation of the factory did.
OutcomeOf(i) ==
    IF rm.factory[i] = "ok"
    THEN rm.outcome.kind = "returned" /\ rm.outcome.settings = rm.calls[i]
    ELSE rm.outcome.kind = "raised" /\ rm.outcome.error = rm.factory[i]

\* C7: with an access token whose construction raises HTTPStatusError, the
\* factory is invoked exactly twice, with the token alone and then with
\* username and password, and the call ends as the second invocation does.
C7_TokenFallback ==
    (Constructed /\ rm.options.access_token # None /\ rm.factory[1] = "HTTPStatusError")
        => /\ Len(rm.calls) = 2
           /\ TokenOnly(1)
           /\ PasswordOnly(2)
           /\ OutcomeOf(2)

\* C7's case: the token rejected, username and password accepted.
C7_Witness ==
    /\ Constructed
    /\ rm.options.access_token = <<"t">>
    /\ rm.factory = <<"HTTPStatusError", "ok">>
    /\ rm.options.username # None /\ rm.options.password # None
    /\ rm.outcome.kind = "returned"
    /\ rm.outcome.settings.user = rm.options.username

\* C8: no invocation of the factory carries both the token and a username or
\* password; an accepted token makes one invocation, with the token alone, and
\* access_token None makes one invocation, with username and password alone.
C8_TokenOrPassword ==
    Constructed
        => /\ \A i \in DOMAIN rm.calls :
                  rm.calls[i].access_token # None
                      => rm.calls[i].user = None /\ rm.calls[i].password = None
           /\ (rm.options.access_token # None /\ rm.factory[1] = "ok")
                  => Len(rm.calls) = 1 /\ TokenOnly(1)
           /\ rm.options.access_token = None
                  => Len(rm.calls) = 1 /\ PasswordOnly(1)

\* C8's case: token, username and password all among the options, the token
\* accepted.
C8_Witness ==
    /\ Constructed
    /\ rm.options.access_token = <<"t">>
    /\ rm.options.username # None /\ rm.options.password # None
    /\ rm.factory[1] = "ok"
    /\ Len(rm.calls) = 1
    /\ rm.outcome.kind = "returned"

\* C9: an error of the token attempt other than HTTPStatusError is raised
\* without a second invocation; the factory is never invoked more than twice;
\* an error of the username/password invocation is raised as it is.
C9_OtherErrorsPropagate ==
    Constructed
        => /\ (rm.options.access_token # None
                  /\ rm.factory[1] \notin {"ok", "HTTPStatusError"})
                  => /\ Len(rm.calls) = 1
                     /\ rm.outcome.kind = "raised"
                     /\ rm.outcome.error = rm.factory[1]
           /\ Len(rm.calls) <= 2
           /\ LET n == Len(rm.calls)
              IN  (rm.calls[n].access_token = None /\ rm.factory[n] # "ok")
                      => rm.outcome.kind = "raised" /\ rm.outcome.error = rm.factory[n]

\* C9's case: the token attempt failing with an error that is no HTTPStatusError.
C9_Witness ==
    /\ Constructed
    /\ rm.options.access_token # None
    /\ rm.factory[1] = "ConnectError"
    /\ Len(rm.calls) = 1
    /\ rm.outcome.error = "ConnectError"

----------------------------------------------------------------------------
(* Claims about what update_config leaves alone *)

\* The step is an update_config call.
UpdateStep == nupd' # nupd

\* The entry of key in the section of file f as it is written there, None if
\* the section has none.
FileEntry(f, key) ==
    IF f.exists /\ f.hasSection /\ key \in DOMAIN f.section THEN f.section[key] ELSE None

\* C11: update_config called with a parameter set to None returns without
\* raising, and the parameter's entry in the file and the secret in the
\* keyring (for the password) are after the call what they were before it.
C11_NoneNotUpdated ==
    [][ UpdateStep
          => \A k \in DOMAIN last'.kwargs :
                 last'.kwargs[k] = None
                     => /\ last'.raised = "none"
                        /\ FileEntry(file', k) = FileEntry(file, k)
                        /\ k = "password" => keyring' = keyring ]_vars

\* The value of the entry of key in file f as a parser reads it, None if the
\* section has no such entry.
ParsedEntry(f, key) ==
    IF f.exists THEN ParserGet(ConfigParserRead(f), key) ELSE None

\* The keys of the entries of the section of file f.
SectionKeys(f) == IF f.exists /\ f.hasSection THEN DOMAIN f.section ELSE {}

\* The keywords of the update_config call just made that the keyring did not
\* take.
PassedToFile ==
    {k \in DOMAIN last'.kwargs :
        ~(k = "password" /\ last'.kwargs[k] # None /\ last'.keyringOk)}

\* C14: no step removes an entry from the section of the config file, and an
\* update_config call leaves to every entry whose key it was not passed the
\* value it had; a key that a call writes as the empty string is in the file
\* afterwards, with an empty value.
C14_FileNeverShrinks ==
    [][ /\ SectionKeys(file) \subseteq SectionKeys(file')
        /\ UpdateStep
              => /\ \A k \in SectionKeys(file) \ DOMAIN last'.kwargs :
                        ParsedEntry(file', k) = ParsedEntry(file, k)
                 /\ last'.raised = "none"
                        => \A k \in PassedToFile :
                               last'.kwargs[k] = EmptyStr
                                   => /\ k \in SectionKeys(file')
                                      /\ file'.section[k] = EmptyStr ]_vars

\* C14's case: a key written as the empty string into a file that holds an
\* entry for another key: both entries are there, the one empty, the other
\* with its value.
C14_Witness ==
    \E k \in Keys, j \in Keys :
        /\ k # j
        /\ UpdatedWith(k, IsEmptyStr)
        /\ k \in SectionKeys(file) /\ file.section[k] = EmptyStr
        /\ j \in SectionKeys(file) /\ Truthy(ParsedEntry(file, j))

\* What read_config returns for password, its keyring call answering: the
\* value without the whitespace around it, None for no password.
ReadBackPassword ==
    LET d == ReadConfigDict(file, keyring, FALSE)
    IN  IF "password" \in DOMAIN d THEN Strip(d["password"]) ELSE None

\* C15: after update_config(password = v) has returned, whichever of the
\* keyring calls made so far raised, read_config returns v for password, and
\* no password if v is the empty string.  The claim is given two allowances
\* here: the keyring call of read_config itself answers, and the value read
\* may differ from v in the whitespace around it.
C15_PasswordReadYourWrites ==
    (last.op = "update_config" /\ last.raised = "none"
        /\ "password" \in DOMAIN last.kwargs /\ last.kwargs["password"] # None)
        => ReadBackPassword = Present(Strip(last.kwargs["password"]))

----------------------------------------------------------------------------
(* Claims about a config file that does not parse *)

\* The file is there and config.read raises on it.
Unparsable(f) == f.exists /\ f.corrupt

\* C12 as claimed: with a file that exists and does not parse, every call of
\* read_config, read_config_key and update_config raises the parse error, and
\* the file is left as it is.  An update_config call without any keyword is
\* not counted against the claim here.
C12_CorruptFileFatal ==
    [][ (Unparsable(file) /\ ~(last'.op = "update_config" /\ DOMAIN last'.kwargs = {}))
          => /\ last'.raised = "ParsingError"
             /\ file' = file ]_vars

\* C12 as amended: with a file that exists and does not parse, every call that
\* reads the file raises the parse error, and no call changes the file.
\* read_config always reads it; read_config_key reads it when the process has
\* not loaded it before; update_config reads it when a keyword is left for
\* the file.  The other calls return without touching the file.
C12_CorruptFileFatalWhenRead ==
    [][ Unparsable(file)
          => /\ file' = file
             /\ last'.op = "read_config" => last'.raised = "ParsingError"
             /\ last'.op = "read_config_key"
                    => IF config.loaded
                       THEN last'.raised = "none"
                            /\ last'.fileValue = ParserGet(config, last'.key)
                       ELSE last'.raised = "ParsingError"
             /\ last'.op = "update_config"
                    => IF PassedToFile # {}
                       THEN last'.raised = "ParsingError"
                       ELSE last'.raised = "none" ]_vars

\* C12's case: update_config asked to write an entry into a file that holds
\* entries and does not parse; it raised the parse error and the entries are
\* still there.
C12_Witness ==
    /\ Unparsable(file)
    /\ last.op = "update_config"
    /\ last.raised = "ParsingError"
    /\ \E k \in DOMAIN last.kwargs :
           /\ Truthy(last.kwargs[k])
           /\ Truthy(FileEntry(file, k))
           /\ FileEntry(file, k) # last.kwargs[k]

----------------------------------------------------------------------------
(* Claims about get_default_database_engine *)

SearchedEngine == last.op = "get_default_database_engine"

\* The calls made to the service fn, in order.
CallsOf(fn) == SelectSeq(last.calls, LAMBDA c : c.fn = fn)

\* C13: the database is looked up by name exactly once.  When the lookups
\* answer: with a default binding, engines.get is called exactly once, with the
\* id of the first binding that is the default, and the engine it fetches is
\* returned; with no binding at all, or none that is the default,
\* FireboltError is raised and engines.get is not called.
C13_DefaultEngine ==
    SearchedEngine
        => /\ CallsOf("databases.get_by_name")
                  = <<[fn |-> "databases.get_by_name", arg |-> last.database_name]>>
           /\ (last.svc.databases = "ok" /\ last.svc.bindings = "ok")
                  => LET D == DefaultBindings(last.bindings)
                     IN  IF D # {}
                         THEN LET first == CHOOSE i \in D : \A j \in D : i <= j
                                  id == last.bindings[first].engine_id
                              IN  /\ CallsOf("engines.get")
                                         = <<[fn |-> "engines.get", arg |-> id]>>
                                  /\ last.svc.engines = "ok"
                                         => /\ last.outcome.kind = "returned"
                                            /\ last.outcome.engine_id = id
                         ELSE /\ last.outcome.kind = "raised"
                              /\ last.outcome.error = "FireboltError"
                              /\ CallsOf("engines.get") = <<>>

\* C13's case: two default bindings with different engines after one that is
\* not the default, and the engine of the first of the two returned.
C13_Witness ==
    /\ SearchedEngine
    /\ Len(last.bindings) = 3
    /\ ~last.bindings[1].is_default_engine
    /\ last.bindings[2].is_default_engine
    /\ last.bindings[3].is_default_engine
    /\ last.bindings[2].engine_id # last.bindings[3].engine_id
    /\ last.outcome.kind = "returned"
    /\ last.outcome.engine_id = last.bindings[2].engine_id

====
